---- MODULE Spec2Model ----
(***************************************************************************)
(* The session store of the authentication context (AuthProvider): the     *)
(* React state user / loading / error, the localStorage entry 'user', the  *)
(* startup effect that restores the session, and the operations login,     *)
(* signup, logout and updateCurrentUser; and the archive service: the      *)
(* upload of a file to the Internet Archive and the resource list client.  *)
(*                                                                         *)
(* JavaScript runs one task at a time: the code of an async function up to *)
(* its await is one step, and its continuation after the await (try body,  *)
(* catch, finally) is one step.                                            *)
(***************************************************************************)
EXTENDS Integers, Sequences, FiniteSets, TLC

\* ------------------------------------------------------------------ bounds
\* login/signup calls started in one run of the application
MaxCalls == 2
\* restarts of the application (the page is reloaded, localStorage is kept)
MaxRestarts == 1

\* ------------------------------------------------------------- JS values
\* the JavaScript value null
Null == [kind |-> "null"]
\* the JavaScript value undefined, as the value of an object's property
Undefined == "undefined"

\* properties of a user record, in the order JSON.stringify emits them
KeyOrder == <<"id", "avatar">>
Keys == {KeyOrder[i] : i \in DOMAIN KeyOrder}
Avatars == {"a.png"}

\* user records the auth backend answers a login with, the accounts it
\* holds: data received from the remote service, every property a string,
\* the optional property avatar present or not
BackendRecords == {[id |-> "u1"], [id |-> "u2", avatar |-> "a.png"]}

\* user records a caller of updateCurrentUser can pass: any object, the
\* optional property may be present with the value undefined (an account
\* whose avatar the caller has cleared)
CallerRecords == BackendRecords \cup {[id |-> "u2", avatar |-> Undefined]}

\* messages of the failures the auth backend client raises
Messages == {"Invalid credentials"}
\* the error localStorage.setItem throws when the quota is exceeded
QuotaExceededError == [message |-> "The quota has been exceeded."]

\* error is null or a message string: <<>> is null, <<m>> the string m
NoError == << >>

\* ---------------------------------------------------------------- JSON
\* A JSON text is a sequence of tokens: punctuation, the literal null, or a
\* string literal (any other token).
Punct == {"{", "}", ":", ","}
IsStringToken(t) == t \notin Punct \cup {"null"}

\* the properties JSON.stringify writes: those whose value is not undefined
WrittenKeys(r) == SelectSeq(KeyOrder, LAMBDA k : k \in DOMAIN r /\ r[k] # Undefined)

RECURSIVE Members(_, _)
Members(r, ks) ==
    IF ks = << >> THEN << >>
    ELSE <<Head(ks), ":", r[Head(ks)]>>
         \o (IF Len(ks) > 1 THEN <<",">> ELSE << >>)
         \o Members(r, Tail(ks))

\* JSON.stringify as it would be with the replacer ['id']
JSONstringifyIdOnly(v) ==
    IF v = Null THEN <<"null">>
    ELSE <<"{">> \o Members(v, SelectSeq(WrittenKeys(v), LAMBDA k : k = "id")) \o <<"}">>
\* JSON.stringify(value) of null or of a record
JSONstringify(v) ==
    IF v = Null THEN <<"null">>
    ELSE <<"{">> \o Members(v, WrittenKeys(v)) \o <<"}">>

\* whether text is a JSON object: { string : string , ... }
IsObjectText(s) ==
    /\ Len(s) >= 2
    /\ s[1] = "{"
    /\ s[Len(s)] = "}"
    /\ LET n == Len(s) - 2 IN
       \/ n = 0
       \/ /\ n % 4 = 3
          /\ \A i \in 1..n :
                CASE i % 4 = 1 -> IsStringToken(s[i + 1])
                  [] i % 4 = 2 -> s[i + 1] = ":"
                  [] i % 4 = 3 -> IsStringToken(s[i + 1])
                  [] OTHER     -> s[i + 1] = ","

\* the record a JSON object text denotes; a repeated key keeps its last value
ObjectOf(s) ==
    LET n    == (Len(s) - 2 + 1) \div 4
        key(j) == s[4 * (j - 1) + 2]
        val(j) == s[4 * (j - 1) + 4]
        last(k) == CHOOSE j \in 1..n : key(j) = k /\ \A i \in (j + 1)..n : key(i) # k
    IN  [k \in {key(j) : j \in 1..n} |-> val(last(k))]

\* JSON.parse(text): the value, or a SyntaxError
JSONparse(s) ==
    IF s = <<"null">> THEN [ok |-> TRUE, value |-> Null]
    ELSE IF IsObjectText(s) THEN [ok |-> TRUE, value |-> ObjectOf(s)]
    ELSE [ok |-> FALSE, value |-> Null]

\* texts another run, another script or the user may have left under 'user'
\* that no JSON.stringify of a record produces: the empty string, a
\* truncated object and the literal null
ForeignTexts == {<< >>, <<"{", "id">>, <<"null">>}
StoredTexts == {JSONstringify(r) : r \in CallerRecords} \cup ForeignTexts


\* ------------------------------------------------------------ localStorage
\* localStorage is a map from keys to texts; only the key 'user' is used
setItem(ls, key, text) == [k \in DOMAIN ls \cup {key} |-> IF k = key THEN text ELSE ls[k]]
removeItem(ls, key) == [k \in DOMAIN ls \ {key} |-> ls[k]]
hasItem(ls, key) == key \in DOMAIN ls
\* a string is truthy unless it is empty; getItem of a missing key is null
Truthy(ls, key) == hasItem(ls, key) /\ ls[key] # << >>
EmptyStorage == [k \in {} |-> << >>]

\* ------------------------------------------------------------------ state
VARIABLES
    user,          \* useState(null): Null or a user record
    loading,       \* useState(true)
    error,         \* useState(null): NoError or <<message>>
    localStorage,  \* the durable key-value surface
    restored,      \* whether the startup effect has run in this run
    calls,         \* the login/signup calls of this run, in the order started
    settled,       \* the last settlement of a call: what its caller received
    lastOp,        \* the last operation that wrote user or the entry
    restarts,      \* restarts so far
    keys,          \* archiveService: ACCESS_KEY and SECRET_KEY
    upload,        \* archiveService: the uploadFile call and its request
    resource       \* archiveService: the call of the resource client

sessionVars ==
    <<user, loading, error, localStorage, restored, calls, settled, lastOp, restarts>>
serviceVars == <<keys, upload, resource>>
vars == <<sessionVars, serviceVars>>

\* the part of the state the handlers read and write, with what the handler
\* throws (raised) and returns (returned) to its caller
Session ==
    [user |-> user, loading |-> loading, error |-> error,
     localStorage |-> localStorage, raised |-> Null, returned |-> Null]

\* lastOp: the operation (op), the record it was given or answered with
\* (rec), whether it completed without throwing (ok) and the run it
\* happened in (run); for a logout, the calls in flight when it ran
\* (during); for a login, whether it follows a logout that ran while it was
\* in flight (afterLogout)
NoOp == [op |-> "none", rec |-> Null, ok |-> TRUE, run |-> 0]
\* settled: the call, and the value its promise resolved with (out, when
\* st is "resolved") or the error it rejected with (when st is "rejected")
NoSettlement == [call |-> 0, st |-> "none", out |-> Null]

\* a promise: pending, resolved with a value or rejected with an error
PendingPromise == [st |-> "pending", value |-> << >>]
\* upload: the uploadFile call under observation.  phase is "idle" before
\* the call, "sent" while the request is in flight, "done" once the promise
\* is settled; requests are the requests opened and sent; events counts the
\* progress events delivered and event is the last one; reported counts the
\* invocations of onProgress and percent is the last value passed to it;
\* terminal is the terminal transport event ("load" or "error") with the
\* response's status, statusText and responseText; resolveCalls and
\* rejectCalls count the calls of the promise's resolve and reject.
NoFile == [name |-> << >>, type |-> << >>, size |-> 0]
NoEvent == [lengthComputable |-> FALSE, loaded |-> 0, total |-> 0]
NoUpload ==
    [phase |-> "idle", file |-> NoFile, itemName |-> << >>, requests |-> << >>,
     events |-> 0, event |-> NoEvent, reported |-> 0, percent |-> 0,
     terminal |-> "none", status |-> 0, statusText |-> "", responseText |-> "",
     promise |-> PendingPromise, resolveCalls |-> 0, rejectCalls |-> 0]
\* resource: the call of the resource client under observation.  op is
\* "list", "create", "update" or "delete"; requests are the requests sent;
\* remote is what became of the request on the remote side ("answered",
\* "persisted", "rejected", "unreachable") and response what fetch resolved
\* with for a list request.
NoResponse == [ok |-> FALSE, status |-> 0, json |-> [error |-> ""]]
NoResourceCall ==
    [phase |-> "idle", op |-> "none", requests |-> << >>, remote |-> "none",
     response |-> NoResponse, promise |-> PendingPromise]
\* process.env.ARCHIVE_ACCESS_KEY and ARCHIVE_SECRET_KEY are not set
NoKeys == [ACCESS_KEY |-> "", SECRET_KEY |-> ""]
ServicesIdle ==
    /\ keys = NoKeys
    /\ upload = NoUpload
    /\ resource = NoResourceCall

Init ==
    /\ ServicesIdle
    /\ user = Null
    /\ loading = TRUE
    /\ error = NoError
    /\ localStorage \in {EmptyStorage} \cup {setItem(EmptyStorage, "user", t) : t \in StoredTexts}
    /\ restored = FALSE
    /\ calls = << >>
    /\ settled = NoSettlement
    /\ lastOp = NoOp
    /\ restarts = 0

\* ------------------------------------------------- the startup effect
\* the effect as it would be if it did not call setUser
restoreEffectNoSetUser(s) == [s EXCEPT !.loading = FALSE]
\* useEffect(() => { try {...} catch {...} finally {...} }, [])
restoreEffect(s) ==
    LET storedUser == IF hasItem(s.localStorage, "user") THEN s.localStorage["user"] ELSE << >>
        parsed == JSONparse(storedUser)
        body ==
            IF ~Truthy(s.localStorage, "user") THEN s
            ELSE IF parsed.ok THEN [s EXCEPT !.user = parsed.value]
            ELSE \* catch (e): console.error, localStorage.removeItem('user')
                 [s EXCEPT !.localStorage = removeItem(s.localStorage, "user")]
    IN  [body EXCEPT !.loading = FALSE]


\* ------------------------------------------------- the auth backend client
\* what authService.loginUser settles with: a user record, or a failure
LoginResponses ==
    {[ok |-> TRUE, value |-> r, error |-> Null] : r \in BackendRecords}
    \cup {[ok |-> FALSE, value |-> Null, error |-> [message |-> m]] : m \in Messages}
\* what authService.createUser settles with: nothing, or a failure
SignupResponses ==
    {[ok |-> TRUE, value |-> Null, error |-> Null]}
    \cup {[ok |-> FALSE, value |-> Null, error |-> [message |-> m]] : m \in Messages}

Names == {"Ann"}
Emails == {"ann@example.org"}
Passwords == {"secret"}

\* ------------------------------------------------------------------ login
\* setLoading(true); setError(null);
loginBegin(s) == [s EXCEPT !.loading = TRUE, !.error = NoError]
\* authService.loginUser(email, pass)
loginRequest(email, pass) == [fn |-> "loginUser", args |-> [email |-> email, password |-> pass]]
\* login as it would be if it spread the answer over the previous user
\* (setUser(prev => ({...prev, ...loggedInUser})))
loginTryMerging(s, resp, quota) ==
    IF ~resp.ok THEN [s EXCEPT !.raised = resp.error]
    ELSE LET prev == s.user
             new == resp.value
             merged == IF prev = Null THEN new
                       ELSE [k \in DOMAIN prev \cup DOMAIN new |->
                                IF k \in DOMAIN new THEN new[k] ELSE prev[k]]
             set == [s EXCEPT !.user = merged] IN
         IF quota THEN [set EXCEPT !.raised = QuotaExceededError]
         ELSE [set EXCEPT !.localStorage = setItem(s.localStorage, "user", JSONstringify(merged)),
                          !.returned = resp.value]
\* login as it would be if it kept a session that is already established
loginTryKeeping(s, resp, quota) ==
    IF ~resp.ok THEN [s EXCEPT !.raised = resp.error]
    ELSE IF s.user # Null THEN [s EXCEPT !.returned = resp.value]
    ELSE LET set == [s EXCEPT !.user = resp.value] IN
         IF quota THEN [set EXCEPT !.raised = QuotaExceededError]
         ELSE [set EXCEPT !.localStorage = setItem(s.localStorage, "user", JSONstringify(resp.value)),
                          !.returned = resp.value]
\* try { loggedInUser = await ...; setUser; localStorage.setItem; return }
\* quota: whether localStorage.setItem throws
loginTry(s, resp, quota) ==
    IF ~resp.ok THEN [s EXCEPT !.raised = resp.error]
    ELSE LET set == [s EXCEPT !.user = resp.value] IN
         IF quota THEN [set EXCEPT !.raised = QuotaExceededError]
         ELSE [set EXCEPT !.localStorage = setItem(s.localStorage, "user", JSONstringify(resp.value)),
                          !.returned = resp.value]
\* catch (err) { setError(err.message); throw err; }
loginCatch(s) == IF s.raised = Null THEN s ELSE [s EXCEPT !.error = <<s.raised.message>>]
\* login as it would be if it reset loading on success only
loginFinallyOnSuccess(s) == IF s.raised = Null THEN [s EXCEPT !.loading = FALSE] ELSE s
\* finally { setLoading(false); }
loginFinally(s) == [s EXCEPT !.loading = FALSE]

\* ----------------------------------------------------------------- signup
signupBegin(s) == [s EXCEPT !.loading = TRUE, !.error = NoError]
\* authService.createUser({ name, email, password: pass, role: 'user', avatar })
signupRequest(name, email, pass, avatar) ==
    [fn |-> "createUser",
     args |-> [name |-> name, email |-> email, password |-> pass, role |-> "user", avatar |-> avatar]]
\* signup as it would be if it copied login: setUser and setItem of what
\* createUser answers
signupTryLikeLogin(s, resp) ==
    IF ~resp.ok THEN [s EXCEPT !.raised = resp.error]
    ELSE [s EXCEPT !.user = resp.value,
                   !.localStorage = setItem(s.localStorage, "user", JSONstringify(resp.value))]
\* try { await authService.createUser(...) }
signupTry(s, resp) == IF resp.ok THEN s ELSE [s EXCEPT !.raised = resp.error]
signupCatch(s) == IF s.raised = Null THEN s ELSE [s EXCEPT !.error = <<s.raised.message>>]
signupFinally(s) == [s EXCEPT !.loading = FALSE]

\* ----------------------------------------------- logout, updateCurrentUser
\* logout as it would be if it also cleared the last error
logoutClearingError(s) ==
    [s EXCEPT !.user = Null, !.localStorage = removeItem(s.localStorage, "user"), !.error = NoError]
\* logout as it would be if it cleared the state only
logoutStateOnly(s) == [s EXCEPT !.user = Null]
\* setUser(null); localStorage.removeItem('user');
logout(s) == [s EXCEPT !.user = Null, !.localStorage = removeItem(s.localStorage, "user")]

\* setUser(updatedUser); localStorage.setItem('user', JSON.stringify(updatedUser));
\* quota: whether localStorage.setItem throws
updateCurrentUser(s, updatedUser, quota) ==
    LET set == [s EXCEPT !.user = updatedUser] IN
    IF quota THEN [set EXCEPT !.raised = QuotaExceededError]
    ELSE [set EXCEPT !.localStorage = setItem(s.localStorage, "user", JSONstringify(updatedUser))]

\* ---------------------------------------------------------------- actions
Pending(cs) == {c \in DOMAIN cs : cs[c].st = "pending"}

Commit(t) ==
    /\ user' = t.user
    /\ loading' = t.loading
    /\ error' = t.error
    /\ localStorage' = t.localStorage

\* the startup effect runs once per run
Restore ==
    /\ ~restored
    /\ restored' = TRUE
    /\ Commit(restoreEffect(Session))
    /\ UNCHANGED <<calls, settled, lastOp, restarts>>
    /\ UNCHANGED serviceVars

\* login(email, pass) up to its await
StartLogin(email, pass) ==
    /\ Len(calls) < MaxCalls
    /\ Commit(loginBegin(Session))
    /\ calls' = Append(calls, [op |-> "login", req |-> loginRequest(email, pass),
                               st |-> "pending", during |-> Pending(calls)])
    /\ UNCHANGED <<restored, settled, lastOp, restarts>>
    /\ UNCHANGED serviceVars

\* login after its await: the backend has answered call c with resp
SettleLogin(c, resp, quota) ==
    /\ restored
    /\ c \in Pending(calls)
    /\ calls[c].op = "login"
    /\ LET t == loginFinally(loginCatch(loginTry(Session, resp, quota))) IN
       /\ Commit(t)
       /\ calls' = [calls EXCEPT ![c].st = IF t.raised = Null THEN "resolved" ELSE "rejected"]
       /\ settled' = IF t.raised = Null
                     THEN [call |-> c, st |-> "resolved", out |-> t.returned]
                     ELSE [call |-> c, st |-> "rejected", out |-> t.raised]
       /\ lastOp' = IF t.user # user \/ t.localStorage # localStorage \/ t.raised = Null
                    THEN [op |-> "login", rec |-> resp.value, ok |-> t.raised = Null, run |-> restarts,
                          afterLogout |-> lastOp.op = "logout" /\ c \in lastOp.during]
                    ELSE lastOp
    /\ UNCHANGED <<restored, restarts>>
    /\ UNCHANGED serviceVars

StartSignup(name, email, pass, avatar) ==
    /\ Len(calls) < MaxCalls
    /\ Commit(signupBegin(Session))
    /\ calls' = Append(calls, [op |-> "signup", req |-> signupRequest(name, email, pass, avatar),
                               st |-> "pending", during |-> Pending(calls)])
    /\ UNCHANGED <<restored, settled, lastOp, restarts>>
    /\ UNCHANGED serviceVars

SettleSignup(c, resp) ==
    /\ restored
    /\ c \in Pending(calls)
    /\ calls[c].op = "signup"
    /\ LET t == signupFinally(signupCatch(signupTry(Session, resp))) IN
       /\ Commit(t)
       /\ calls' = [calls EXCEPT ![c].st = IF t.raised = Null THEN "resolved" ELSE "rejected"]
       /\ settled' = IF t.raised = Null
                     THEN [call |-> c, st |-> "resolved", out |-> t.returned]
                     ELSE [call |-> c, st |-> "rejected", out |-> t.raised]
       /\ lastOp' = IF t.user # user \/ t.localStorage # localStorage
                    THEN [op |-> "signup", rec |-> Null, ok |-> t.raised = Null, run |-> restarts]
                    ELSE lastOp
    /\ UNCHANGED <<restored, restarts>>
    /\ UNCHANGED serviceVars

\* logout as it would be if it aborted the calls in flight
LogoutAborting ==
    /\ Commit(logout(Session))
    /\ lastOp' = [op |-> "logout", rec |-> Null, ok |-> TRUE, run |-> restarts,
                  during |-> Pending(calls)]
    /\ calls' = [c \in DOMAIN calls |->
                  IF c \in Pending(calls) THEN [calls[c] EXCEPT !.st = "aborted"] ELSE calls[c]]
    /\ UNCHANGED <<restored, settled, restarts>>
    /\ UNCHANGED serviceVars
\* logout()
Logout ==
    /\ Commit(logout(Session))
    /\ lastOp' = [op |-> "logout", rec |-> Null, ok |-> TRUE, run |-> restarts,
                  during |-> Pending(calls)]
    /\ UNCHANGED <<restored, calls, settled, restarts>>
    /\ UNCHANGED serviceVars

UpdateCurrentUser(updatedUser, quota) ==
    /\ LET t == updateCurrentUser(Session, updatedUser, quota) IN
       /\ Commit(t)
       /\ lastOp' = [op |-> "update", rec |-> updatedUser, ok |-> t.raised = Null, run |-> restarts]
    /\ UNCHANGED <<restored, calls, settled, restarts>>
    /\ UNCHANGED serviceVars

\* the page is reloaded: the React state and the calls in flight are gone,
\* localStorage stays (the startup effect runs in the first commit of a
\* run, so a run that is reloaded has restored)
Restart ==
    /\ restored
    /\ restarts < MaxRestarts
    /\ restarts' = restarts + 1
    /\ user' = Null
    /\ loading' = TRUE
    /\ error' = NoError
    /\ restored' = FALSE
    /\ calls' = << >>
    /\ settled' = NoSettlement
    /\ UNCHANGED <<localStorage, lastOp>>
    /\ UNCHANGED serviceVars

Next ==
    \/ Restore
    \/ \E e \in Emails, p \in Passwords : StartLogin(e, p)
    \/ \E c \in 1..MaxCalls, resp \in LoginResponses, quota \in BOOLEAN :
          (quota => resp.ok) /\ SettleLogin(c, resp, quota)
    \/ \E n \in Names, e \in Emails, p \in Passwords, a \in Avatars :
          StartSignup(n, e, p, a)
    \/ \E c \in 1..MaxCalls, resp \in SignupResponses : SettleSignup(c, resp)
    \/ Logout
    \/ \E r \in CallerRecords, quota \in BOOLEAN : UpdateCurrentUser(r, quota)
    \/ Restart

Spec == Init /\ [][Next]_vars


\* ------------------------------------------------------------ properties
\* the value the durable entry decodes to
Entry == JSONparse(localStorage["user"])
EntryAfter == JSONparse(localStorage'["user"])

\* call c is a login (signup) that this step settles
LoginSettles(c) ==
    /\ c \in Pending(calls) /\ calls[c].op = "login"
    /\ c \in DOMAIN calls' /\ calls'[c].st # "pending"
SignupSettles(c) ==
    /\ c \in Pending(calls) /\ calls[c].op = "signup"
    /\ c \in DOMAIN calls' /\ calls'[c].st # "pending"

\* C1: whenever a login re-raises a failure, that step leaves user and the
\* durable entry as they were, sets error to the failure's message, and ends
\* with loading false -- whatever failed inside login.
C1_FailedLoginKeepsUser ==
    [][\A c \in DOMAIN calls :
         (LoginSettles(c) /\ calls'[c].st = "rejected")
         => /\ user' = user
            /\ localStorage' = localStorage
            /\ error' = <<settled'.out.message>>
            /\ loading' = FALSE]_vars

\* C2: when a login succeeds with backend record R, that step sets user to
\* R (nothing of the previous user is kept), makes the durable entry decode
\* to R, and returns R.
C2_LoginSetsUserAndEntry ==
    [][\A c \in DOMAIN calls :
         (LoginSettles(c) /\ calls'[c].st = "resolved")
         => /\ lastOp'.op = "login" /\ lastOp'.ok
            /\ lastOp'.rec \in BackendRecords
            /\ user' = lastOp'.rec
            /\ hasItem(localStorage', "user")
            /\ EntryAfter.ok
            /\ EntryAfter.value = lastOp'.rec
            /\ settled' = [call |-> c, st |-> "resolved", out |-> lastOp'.rec]]_vars

\* a login that answered the account without avatar has just replaced a
\* user that had one
C2_Witness ==
    /\ \E c \in DOMAIN calls : calls[c].op = "login" /\ calls[c].st = "resolved" /\ settled.call # c
    /\ settled.st = "resolved" /\ calls[settled.call].op = "login"
    /\ lastOp.op = "login" /\ lastOp.rec = [id |-> "u1"]
    /\ user = [id |-> "u1"]
    /\ settled.out = user
    /\ Entry.value = user


\* the durable entry and the in-memory user agree
Agree ==
    IF user = Null THEN ~hasItem(localStorage, "user")
    ELSE hasItem(localStorage, "user") /\ Entry.ok /\ Entry.value = user

\* C3: in every state after restore has completed, the durable entry is
\* absent exactly when user is none, and otherwise decodes to user.
C3_EntryAgreesWithUser == restored => Agree

\* C4: if a login or signup has started and not yet settled, loading is true.
C4_LoadingWhileInFlight == Pending(calls) # {} => loading = TRUE

\* C5: every login and signup ends by setting loading false, restore ends by
\* setting loading false, and whenever restore has completed and no login or
\* signup is in flight, loading is false.
C5_LoadingNotLeftTrue ==
    /\ [](restored /\ Pending(calls) = {} => loading = FALSE)
    /\ [][(\E c \in DOMAIN calls : LoginSettles(c) \/ SignupSettles(c)) => loading' = FALSE]_vars
    /\ [][(~restored /\ restored') => loading' = FALSE]_vars

\* a login has failed, a signup has succeeded, nothing is in flight
C5_Witness ==
    /\ restored
    /\ Len(calls) = 2
    /\ calls[1].op = "login" /\ calls[1].st = "rejected"
    /\ calls[2].op = "signup" /\ calls[2].st = "resolved"
    /\ loading = FALSE

\* logins a and b were in flight at the same time
Overlap(cs, a, b) == IF a < b THEN a \in cs[b].during ELSE b \in cs[a].during

\* C6: when the second of two overlapping logins settles and both have
\* succeeded, user and the durable entry hold the record of that login,
\* whichever of the two was started first.
C6_LastSettledLoginWins ==
    [][\A c \in DOMAIN calls :
         (/\ LoginSettles(c)
          /\ calls'[c].st = "resolved"
          /\ \E b \in DOMAIN calls \ {c} :
                calls[b].op = "login" /\ calls[b].st = "resolved" /\ Overlap(calls, b, c))
         => /\ settled'.call = c
            /\ user' = settled'.out
            /\ hasItem(localStorage', "user")
            /\ EntryAfter.ok /\ EntryAfter.value = settled'.out]_vars

\* two overlapping logins have succeeded with different records; the one
\* started first settled last and its record is the current one
C6_Witness ==
    /\ Len(calls) = 2
    /\ \A c \in 1..2 : calls[c].op = "login" /\ calls[c].st = "resolved"
    /\ Overlap(calls, 1, 2)
    /\ settled.call = 1
    /\ lastOp.op = "login" /\ lastOp.rec = settled.out
    /\ user = settled.out
    /\ Entry.value = settled.out


\* this step starts a signup
SignupStarts ==
    /\ Len(calls') = Len(calls) + 1
    /\ calls'[Len(calls')].op = "signup"

\* C7: no step of a signup, from its start to its settlement, changes user
\* or the durable entry, whether it succeeds or fails; a failing signup sets
\* error to the failure's message and re-raises it; the account is created
\* with the role 'user'.
C7_SignupEstablishesNoSession ==
    /\ [][SignupStarts
          => /\ user' = user
             /\ localStorage' = localStorage
             /\ calls'[Len(calls')].req.fn = "createUser"
             /\ calls'[Len(calls')].req.args.role = "user"]_vars
    /\ [][\A c \in 1..MaxCalls, resp \in SignupResponses :
            SettleSignup(c, resp)
            => /\ user' = user
               /\ localStorage' = localStorage
               /\ resp.ok => settled' = [call |-> c, st |-> "resolved", out |-> Null]
               /\ ~resp.ok => /\ settled' = [call |-> c, st |-> "rejected", out |-> resp.error]
                              /\ error' = <<resp.error.message>>]_vars

\* while a user is logged in, one signup has succeeded and one has failed
C7_Witness ==
    /\ \E c \in DOMAIN calls : calls[c].op = "signup" /\ calls[c].st = "resolved"
    /\ \E c \in DOMAIN calls : calls[c].op = "signup" /\ calls[c].st = "rejected"
    /\ settled.st = "rejected"
    /\ error = <<settled.out.message>>
    /\ user # Null
    /\ Agree

\* C8: logout, in any state, results at once in user = none and the durable
\* entry absent, and issues no backend call.
C8_LogoutClearsBoth ==
    [][Logout => /\ user' = Null
                 /\ ~hasItem(localStorage', "user")
                 /\ calls' = calls]_vars

\* logout has run while a call was in flight
C8_Witness ==
    /\ lastOp.op = "logout"
    /\ Pending(calls) # {}
    /\ user = Null
    /\ ~hasItem(localStorage, "user")

\* C9: restoring when the durable entry is present but not decodable yields
\* user = none, deletes the entry, ends with loading false and propagates
\* no failure; restoring with no entry yields user = none, leaves the entry
\* absent and ends with loading false.  (Restore at startup: user is none.)
C9_RestoreDiscardsUndecodable ==
    [][(Restore /\ user = Null)
       => /\ (hasItem(localStorage, "user") /\ ~Entry.ok)
                => /\ user' = Null
                   /\ ~hasItem(localStorage', "user")
                   /\ loading' = FALSE
                   /\ restoreEffect(Session).raised = Null
          /\ ~hasItem(localStorage, "user")
                => /\ user' = Null
                   /\ ~hasItem(localStorage', "user")
                   /\ loading' = FALSE]_vars

\* the record JSON keeps of a record: its properties that are not undefined
JSONForm(r) == [k \in {x \in DOMAIN r : r[x] # Undefined} |-> r[k]]

\* restore runs right after a restart: the last operation that wrote user
\* or the entry belongs to an earlier run
RestoreAfterRestart == Restore /\ restarts > 0 /\ lastOp.run < restarts

UpdateStep == lastOp'.op = "update" /\ UpdateCurrentUser(lastOp'.rec, ~lastOp'.ok)

\* C11 as claimed: updateCurrentUser(record), in any state, sets user to the
\* record, makes the durable entry decode to the record, issues no backend
\* call and leaves loading and error unchanged.
C11_UpdateReplacesAndPersists ==
    [][UpdateStep
       => /\ user' = lastOp'.rec
          /\ hasItem(localStorage', "user") /\ EntryAfter.ok /\ EntryAfter.value = lastOp'.rec
          /\ calls' = calls
          /\ loading' = loading /\ error' = error]_vars

\* C12: error is cleared when a login or signup starts, is set to the
\* failure's message when a login or signup fails, and is left unchanged by
\* every other step of the session (logout, updateCurrentUser, restore, a
\* login or signup that succeeds).
C12_ErrorChangesOnlyOnStartAndFailure ==
    [][restarts' = restarts
       => IF Len(calls') > Len(calls) THEN error' = NoError
          ELSE IF \E c \in DOMAIN calls :
                     (LoginSettles(c) \/ SignupSettles(c)) /\ calls'[c].st = "rejected"
               THEN settled'.st = "rejected" /\ error' = <<settled'.out.message>>
               ELSE error' = error]_vars

\* a call has succeeded after another one failed: error still holds the
\* failure's message
C12_Witness ==
    /\ settled.st = "resolved"
    /\ \E c \in DOMAIN calls : calls[c].st = "rejected"
    /\ error = <<"Invalid credentials">>

\* call c can settle
CanSettle(c) ==
    ENABLED (\/ \E resp \in LoginResponses : SettleLogin(c, resp, FALSE)
             \/ \E resp \in SignupResponses : SettleSignup(c, resp))

\* a logout ran while call c was in flight, and nothing has written user or
\* the entry since
LoggedOutDuring(c) == lastOp.op = "logout" /\ c \in lastOp.during

\* C17: a call in flight stays in flight, unchanged, until its own
\* settlement -- a logout or a later login or signup does not abort it -- and
\* its settlement can always run; a login that succeeds with record R after
\* a logout ran during it ends with user = R and the entry decoding to R.
C17_NoCancellation ==
    /\ [][\A c \in Pending(calls) :
            restarts' = restarts
            => \/ c \in DOMAIN calls' /\ calls'[c] = calls[c]
               \/ /\ LoginSettles(c) \/ SignupSettles(c)
                  /\ calls'[c].st \in {"resolved", "rejected"}
                  /\ settled'.call = c /\ settled'.st = calls'[c].st]_vars
    /\ [](\A c \in Pending(calls) : restored => CanSettle(c))
    /\ [][\A c \in DOMAIN calls :
            (LoginSettles(c) /\ calls'[c].st = "resolved" /\ LoggedOutDuring(c))
            => /\ settled'.out = lastOp'.rec
               /\ user' = settled'.out
               /\ hasItem(localStorage', "user")
               /\ EntryAfter.ok /\ EntryAfter.value = settled'.out]_vars

\* a login has succeeded after a logout ran during it
C17_Witness ==
    /\ settled.st = "resolved"
    /\ calls[settled.call].op = "login"
    /\ lastOp.op = "login" /\ lastOp.afterLogout
    /\ lastOp.rec = settled.out
    /\ user = settled.out
    /\ Entry.value = settled.out


\* ------------------------------------------------ archiveService: upload
\* Strings whose characters the code inspects are sequences of characters.
MaxSize == 40    \* file sizes range over 0..MaxSize bytes
MaxEvents == 1   \* progress events delivered to one upload

videoSlash == <<"v","i","d","e","o","/">>
imageSlash == <<"i","m","a","g","e","/">>
applicationPdf == <<"a","p","p","l","i","c","a","t","i","o","n","/","p","d","f">>
\* declared content types (File.type; empty when the type is unknown)
ContentTypes ==
    {videoSlash \o <<"m","p","4">>, videoSlash, <<"v","i","d","e","o">>,
     <<"x">> \o videoSlash,
     applicationPdf, applicationPdf \o <<"x">>, <<"a","p","p","l","i","c","a","t","i","o","n","/">>,
     imageSlash \o <<"p","n","g">>, <<"i","m","a","g","e">>,
     <<"t","e","x","t","/","p","l","a","i","n">>, << >>}
FileNames == {<<"a",".","b">>, <<"a"," ","b">>, <<"a","/","b">>, <<"%","2","0">>}
ItemNames == {<<"i">>, <<"i","/","j">>}
\* the files given to uploadFile: every name and type at one size, and one
\* name and type at every size
Files ==
    [name : FileNames, type : ContentTypes, size : {1}]
    \cup [name : {<<"a",".","b">>}, type : {applicationPdf}, size : 0..MaxSize]
KeyConfigs == [ACCESS_KEY : {"", "AK"}, SECRET_KEY : {"", "SK"}]

\* String.prototype.startsWith
startsWith(str, searchString) ==
    /\ Len(str) >= Len(searchString)
    /\ SubSeq(str, 1, Len(searchString)) = searchString

\* getMediaType as it would be if it tested the prefixes without the slash
getMediaTypeLoose(file) ==
    IF startsWith(file.type, <<"v","i","d","e","o">>) THEN "movies"
    ELSE IF file.type = applicationPdf THEN "texts"
    ELSE IF startsWith(file.type, <<"i","m","a","g","e">>) THEN "image"
    ELSE "texts"
getMediaType(file) ==
    IF startsWith(file.type, videoSlash) THEN "movies"
    ELSE IF file.type = applicationPdf THEN "texts"
    ELSE IF startsWith(file.type, imageSlash) THEN "image"
    ELSE "texts"

\* encodeURIComponent: the characters it leaves as they are (of the
\* characters of FileNames), and the UTF-8 percent-encoding of the others
UriUnreserved == {"a", "b", ".", "0", "2"}
PercentEncoded(ch) ==
    CASE ch = " " -> <<"%","2","0">>
      [] ch = "/" -> <<"%","2","F">>
      [] ch = "%" -> <<"%","2","5">>
RECURSIVE encodeURIComponent(_)
encodeURIComponent(str) ==
    IF str = << >> THEN << >>
    ELSE (IF Head(str) \in UriUnreserved THEN <<Head(str)>> ELSE PercentEncoded(Head(str)))
         \o encodeURIComponent(Tail(str))

ConfigurationError ==
    <<"Archive service API keys are not configured. Please set ARCHIVE_ACCESS_KEY and ARCHIVE_SECRET_KEY environment variables.">>
NetworkError == <<"Network error during upload.">>

\* resolve and reject of the promise uploadFile returns: the first call
\* settles it, later calls have no effect
resolve(u, value) ==
    [u EXCEPT !.resolveCalls = @ + 1,
              !.promise = IF @.st = "pending" THEN [st |-> "resolved", value |-> value] ELSE @]
reject(u, message) ==
    [u EXCEPT !.rejectCalls = @ + 1,
              !.promise = IF @.st = "pending" THEN [st |-> "rejected", value |-> message] ELSE @]

\* xhr.open('PUT', url, true); xhr.setRequestHeader(...) x 5; xhr.send(file)
Request(k, file, itemName) ==
    [method |-> "PUT",
     url |-> <<"https://s3.us.archive.org/">> \o itemName \o <<"/">> \o encodeURIComponent(file.name),
     Authorization |-> <<"LOW ", k.ACCESS_KEY, ":", k.SECRET_KEY>>,
     autoMakeBucket |-> "1",
     metaCollection |-> "opensource",
     metaMediatype |-> getMediaType(file),
     ContentType |-> file.type,
     body |-> file]

\* the responses of the storage service: status, statusText, responseText
Responses ==
    {[status |-> 200, statusText |-> "OK", responseText |-> ""],
     [status |-> 299, statusText |-> "", responseText |-> ""],
     [status |-> 300, statusText |-> "Multiple Choices", responseText |-> ""],
     [status |-> 404, statusText |-> "Not Found", responseText |-> "<Error>NoSuchBucket</Error>"],
     [status |-> 503, statusText |-> "Slow Down", responseText |-> "<Error>SlowDown</Error>"]}

\* the progress events of an upload of size bytes: lengthComputable is true
\* exactly when total is not 0, and total is then the size of the body
ProgressEvents(size) ==
    {[lengthComputable |-> size > 0, loaded |-> l, total |-> size] : l \in 0..size}
    \cup {[lengthComputable |-> FALSE, loaded |-> l, total |-> 0] : l \in 0..size}

\* the percentage as it would be if it were rounded down
percentCompleteFloor(loaded, total) == (100 * loaded) \div total
\* Math.round((event.loaded / event.total) * 100) in binary64 arithmetic:
\* the quotient is rounded to the nearest double, its product with 100 is
\* rounded again, and Math.round rounds halves up.  For 0 <= loaded <= total
\* < 200 the result is the exact percentage rounded half up, except where
\* loaded / total = 23 / 40: the exact percentage is 57.5, the double product
\* is 57.49999999999999 and the result is 57.
percentComplete(loaded, total) ==
    IF 40 * loaded = 23 * total THEN 57
    ELSE (200 * loaded + total) \div (2 * total)

\* uploadFile as it would be if it rejected only when both keys are missing
uploadFileUnlessBothMissing(k, file, itemName) ==
    LET u == [NoUpload EXCEPT !.file = file, !.itemName = itemName] IN
    IF k.ACCESS_KEY = "" /\ k.SECRET_KEY = ""
    THEN [reject(u, ConfigurationError) EXCEPT !.phase = "done"]
    ELSE [u EXCEPT !.phase = "sent", !.requests = <<Request(k, file, itemName)>>]
\* the executor of the promise, which runs inside the call of uploadFile
uploadFile(k, file, itemName) ==
    LET u == [NoUpload EXCEPT !.file = file, !.itemName = itemName] IN
    IF k.ACCESS_KEY = "" \/ k.SECRET_KEY = ""
    THEN [reject(u, ConfigurationError) EXCEPT !.phase = "done"]
    ELSE [u EXCEPT !.phase = "sent", !.requests = <<Request(k, file, itemName)>>]

\* xhr.upload.onprogress
onprogress(u, event) ==
    LET seen == [u EXCEPT !.events = @ + 1, !.event = event] IN
    IF event.lengthComputable
    THEN [seen EXCEPT !.reported = @ + 1,
                      !.percent = percentComplete(event.loaded, event.total)]
    ELSE seen

\* xhr.onload as it would be if the public URL held the file's name as it is
onloadRawName(u, response) ==
    LET xhr == [u EXCEPT !.terminal = "load", !.status = response.status,
                         !.statusText = response.statusText,
                         !.responseText = response.responseText] IN
    IF xhr.status >= 200 /\ xhr.status < 300
    THEN resolve(xhr, <<"https://archive.org/download/">> \o u.itemName \o <<"/">> \o u.file.name)
    ELSE reject(xhr, <<"Upload failed: ", ToString(xhr.status), " ", xhr.statusText,
                       " - ", xhr.responseText>>)
\* xhr.onload
onload(u, response) ==
    LET xhr == [u EXCEPT !.terminal = "load", !.status = response.status,
                         !.statusText = response.statusText,
                         !.responseText = response.responseText] IN
    IF xhr.status >= 200 /\ xhr.status < 300
    THEN resolve(xhr, <<"https://archive.org/download/">> \o u.itemName \o <<"/">>
                      \o encodeURIComponent(u.file.name))
    ELSE reject(xhr, <<"Upload failed: ", ToString(xhr.status), " ", xhr.statusText,
                       " - ", xhr.responseText>>)

\* xhr.onerror
onerror(u) == reject([u EXCEPT !.terminal = "error"], NetworkError)

\* ---- the upload's steps
UploadFile(file, itemName) ==
    /\ upload.phase = "idle"
    /\ upload' = uploadFile(keys, file, itemName)
    /\ UNCHANGED <<keys, resource>>
    /\ UNCHANGED sessionVars

\* the transport delivers a progress event of the request in flight
Progress(event) ==
    /\ upload.phase = "sent"
    /\ upload.events < MaxEvents
    /\ upload' = onprogress(upload, event)
    /\ UNCHANGED <<keys, resource>>
    /\ UNCHANGED sessionVars

\* the transport delivers the response
Load(response) ==
    /\ upload.phase = "sent"
    /\ upload' = [onload(upload, response) EXCEPT !.phase = "done"]
    /\ UNCHANGED <<keys, resource>>
    /\ UNCHANGED sessionVars

\* the transport fails: no response is received
TransportError ==
    /\ upload.phase = "sent"
    /\ upload' = [onerror(upload) EXCEPT !.phase = "done"]
    /\ UNCHANGED <<keys, resource>>
    /\ UNCHANGED sessionVars

\* the session at its initial values: the services do not read or write it
SessionIdle ==
    /\ user = Null
    /\ loading = TRUE
    /\ error = NoError
    /\ localStorage = EmptyStorage
    /\ restored = FALSE
    /\ calls = << >>
    /\ settled = NoSettlement
    /\ lastOp = NoOp
    /\ restarts = 0

InitArchive ==
    /\ SessionIdle
    /\ keys \in KeyConfigs
    /\ upload = NoUpload
    /\ resource = NoResourceCall

NextArchive ==
    \/ \E file \in Files, itemName \in ItemNames : UploadFile(file, itemName)
    \/ \E event \in ProgressEvents(upload.file.size) : Progress(event)
    \/ \E response \in Responses : Load(response)
    \/ TransportError

SpecArchive == InitArchive /\ [][NextArchive]_vars

\* ---- properties of the upload
KeysConfigured == keys.ACCESS_KEY # "" /\ keys.SECRET_KEY # ""

\* C13: when either credential is unset, a call of uploadFile rejects with
\* the configuration error and there is never any transport activity: no
\* request is opened or sent, no transport event is delivered and onProgress
\* is never invoked.
C13_UnsetKeysRejectBeforeTransport ==
    (upload.phase # "idle" /\ ~KeysConfigured)
    => /\ upload.promise = [st |-> "rejected", value |-> ConfigurationError]
       /\ upload.phase = "done"
       /\ upload.requests = << >>
       /\ upload.events = 0 /\ upload.terminal = "none"
       /\ upload.reported = 0

\* uploadFile was called with the access key set and the secret key unset
C13_Witness ==
    /\ keys = [ACCESS_KEY |-> "AK", SECRET_KEY |-> ""]
    /\ upload.phase = "done"
    /\ upload.file.name = <<"a"," ","b">>
    /\ upload.promise.st = "rejected"

\* str begins with the characters of prefix
HasPrefix(str, prefix) == \E rest \in {SubSeq(str, n, Len(str)) : n \in 1..Len(str) + 1} : str = prefix \o rest

\* the classification the claim gives a content type
Classification(type) ==
    CASE HasPrefix(type, videoSlash) -> "movies"
      [] type = applicationPdf -> "texts"
      [] HasPrefix(type, imageSlash) -> "image"
      [] OTHER -> "texts"

\* C14: the media type sent with the upload of a file is 'movies' if the
\* file's content type starts with 'video/', 'texts' if it is exactly
\* 'application/pdf', 'image' if it starts with 'image/', and 'texts' for
\* anything else; it is always one of these three values.
C14_MediaClassification ==
    \A i \in DOMAIN upload.requests :
        /\ upload.requests[i].metaMediatype = Classification(upload.file.type)
        /\ upload.requests[i].metaMediatype \in {"movies", "texts", "image"}

\* a file of type 'image' (no slash) was sent as 'texts'
C14_Witness ==
    /\ upload.phase = "sent"
    /\ upload.file.type = <<"i","m","a","g","e">>
    /\ upload.requests[1].metaMediatype = "texts"
    /\ upload.requests[1].ContentType = upload.file.type

\* decodeURIComponent, on the characters of FileNames
PercentDecoded(hex) ==
    CASE hex = <<"2","0">> -> " "
      [] hex = <<"2","F">> -> "/"
      [] hex = <<"2","5">> -> "%"
      [] OTHER -> "?"
RECURSIVE decodeURIComponent(_)
decodeURIComponent(str) ==
    IF str = << >> THEN << >>
    ELSE IF Head(str) = "%" /\ Len(str) >= 3
         THEN <<PercentDecoded(SubSeq(str, 2, 3))>> \o decodeURIComponent(SubSeq(str, 4, Len(str)))
         ELSE <<Head(str)>> \o decodeURIComponent(Tail(str))

\* url is base, then the container name, a slash and the URL-encoded name
\* of the file
UrlOn(url, base, itemName, name) ==
    \E encoded \in {SubSeq(url, n, Len(url)) : n \in 1..Len(url) + 1} :
        /\ url = <<base>> \o itemName \o <<"/">> \o encoded
        /\ \A i \in DOMAIN encoded : encoded[i] \notin {" ", "/", "?", "#"}
        /\ decodeURIComponent(encoded) = name

\* C18: with credentials configured, an upload issues exactly one PUT, and
\* its outcome is fixed by the terminal transport event: load with a status
\* in 200..299 resolves with the public URL of the same container name and
\* URL-encoded file name as the upload URL; load with any other status
\* rejects with an error that embeds the status; an error event rejects with
\* the network-error message, which no other failure has; the promise is
\* settled at most once and, once settled, stays as it is.
C18_OutcomeFixedByTerminalEvent ==
    /\ [](KeysConfigured /\ upload.phase # "idle"
          => /\ Len(upload.requests) = 1
             /\ upload.requests[1].method = "PUT"
             /\ upload.requests[1].body = upload.file
             /\ UrlOn(upload.requests[1].url, "https://s3.us.archive.org/",
                      upload.itemName, upload.file.name)
             /\ upload.resolveCalls + upload.rejectCalls <= 1
             /\ (upload.terminal = "none") = (upload.promise.st = "pending")
             /\ (upload.terminal = "none") = (upload.phase = "sent")
             /\ upload.terminal = "load" /\ upload.status \in 200..299
                  => /\ upload.promise.st = "resolved"
                     /\ UrlOn(upload.promise.value, "https://archive.org/download/",
                              upload.itemName, upload.file.name)
                     /\ Tail(upload.promise.value) = Tail(upload.requests[1].url)
             /\ upload.terminal = "load" /\ upload.status \notin 200..299
                  => /\ upload.promise.st = "rejected"
                     /\ \E i \in DOMAIN upload.promise.value :
                           upload.promise.value[i] = ToString(upload.status)
                     /\ upload.promise.value # NetworkError
             /\ upload.terminal = "error"
                  => upload.promise = [st |-> "rejected", value |-> NetworkError])
    /\ [][upload.promise.st # "pending" => upload' = upload]_vars

\* the upload of a file whose name has a space, into a container whose name
\* has a slash, was answered with status 299
C18_Witness ==
    /\ KeysConfigured
    /\ upload.terminal = "load" /\ upload.status = 299
    /\ upload.file.name = <<"a"," ","b">> /\ upload.itemName = <<"i","/","j">>
    /\ upload.promise.value = <<"https://archive.org/download/", "i","/","j", "/", "a","%","2","0","b">>

\* this step invokes onProgress
Reports == upload'.reported > upload.reported

\* C19 as claimed: onProgress is invoked only for progress events whose
\* length is computable, and the value passed is an integer in 0..100 equal
\* to the percentage 100 * loaded / total rounded to the nearest integer
\* (halves up).
C19_ProgressIsRoundedPercentage ==
    [][/\ Reports => upload'.event.lengthComputable
       /\ Reports => /\ upload'.percent \in 0..100
                     /\ upload'.percent =
                          (200 * upload'.event.loaded + upload'.event.total)
                             \div (2 * upload'.event.total)]_vars

\* C19 amended: onProgress is invoked for exactly the progress events whose
\* length is computable, and the value passed is an integer in 0..100 within
\* one half of the percentage 100 * loaded / total: the nearest integer, and
\* at a percentage halfway between two integers either of the two.
C19_ProgressIsNearestPercentage ==
    [][/\ upload'.events > upload.events
          => (Reports <=> upload'.event.lengthComputable)
       /\ Reports
          => /\ upload'.reported = upload.reported + 1
             /\ upload'.event.total = upload.file.size
             /\ upload'.event.loaded \in 0..upload'.event.total
             /\ upload'.percent \in 0..100
             /\ LET d == 100 * upload'.event.loaded - upload'.percent * upload'.event.total IN
                    /\ 2 * d <= upload'.event.total
                    /\ 2 * (0 - d) <= upload'.event.total]_vars

\* onProgress was invoked for 23 bytes of 40 and given 57
C19_Witness ==
    /\ upload.reported = 1
    /\ upload.event = [lengthComputable |-> TRUE, loaded |-> 23, total |-> 40]
    /\ upload.percent = 57

\* --------------------------------------- archiveService: resource client
MaxResources == 2   \* records in the list the backend returns

API_URL ==
    "https://script.google.com/macros/s/AKfycbxN_P9tB-rr6kVKy9MZwnZ2qb-c8meyTZaloyAglJ48xuJdbopda7PQsROJyipYGzfskw/exec"

\* JavaScript numbers and strings
Num(n) == [t |-> "number", n |-> n, s |-> ""]
Str(s) == [t |-> "string", n |-> 0, s |-> s]
\* the identifiers as the backend stores them
StoredIds == {Num(1), Num(20), Str("1"), Str("20"), Str("a")}
Titles == {"t1", "t2"}
StoredResources == [id : StoredIds, title : Titles]
RECURSIVE ListsUpTo(_)
ListsUpTo(n) ==
    IF n = 0 THEN {<< >>}
    ELSE LET shorter == ListsUpTo(n - 1) IN
         shorter \cup {Append(l, r) : l \in {x \in shorter : Len(x) = n - 1}, r \in StoredResources}
\* what fetch(API_URL) resolves with: the status and the decoded JSON body
\* ({ data: [...] }, or an object without data)
ListResponses ==
    {[ok |-> TRUE, status |-> 200, json |-> [data |-> l]] : l \in ListsUpTo(MaxResources)}
    \cup {[ok |-> TRUE, status |-> 200, json |-> [error |-> "no sheet"]],
          [ok |-> FALSE, status |-> 500, json |-> [error |-> "server"]],
          [ok |-> FALSE, status |-> 404, json |-> [data |-> <<[id |-> Num(1), title |-> "t1"]>>]]}
\* what the UI passes to createResource / updateResource / deleteResource
ResourceFields == [title |-> "t1", Subject_Name |-> "s", video_link |-> "v", pdf_link |-> "p", image_url |-> "i"]
Mutations ==
    {[op |-> "create", id |-> Str("")], [op |-> "update", id |-> Str("a")],
     [op |-> "update", id |-> Num(20)], [op |-> "delete", id |-> Str("1")],
     [op |-> "delete", id |-> Num(1)]}
\* what the remote script does with a request it received
RemoteOutcomes == {"persisted", "rejected"}

\* String(value)
String(value) == IF value.t = "number" THEN Str(ToString(value.n)) ELSE value

\* the map of getResources as it would be if it left the identifiers alone
normalizeKeepingIds(resources) == resources
\* resources.map((resource) => ({ ...resource, id: String(resource.id) }))
normalize(resources) ==
    [i \in DOMAIN resources |->
        [k \in DOMAIN resources[i] \cup {"id"} |->
            IF k = "id" THEN String(resources[i].id) ELSE resources[i][k]]]

\* getResources after fetch has resolved with response
getResourcesContinue(rc, response) ==
    IF ~response.ok
    THEN [rc EXCEPT !.phase = "done",
                    !.promise = [st |-> "rejected", value |-> <<"Failed to fetch resources">>]]
    ELSE LET data == response.json
             resources == IF "data" \in DOMAIN data THEN data.data ELSE << >>
         IN [rc EXCEPT !.phase = "done",
                       !.promise = [st |-> "resolved", value |-> normalize(resources)]]

\* the FormData of createResource / updateResource / deleteResource
\* (append turns every value into a string)
FormData(m) ==
    LET fields == <<<<"title", ResourceFields.title>>,
                    <<"Subject_Name", ResourceFields.Subject_Name>>,
                    <<"video_link", ResourceFields.video_link>>,
                    <<"pdf_link", ResourceFields.pdf_link>>,
                    <<"image_url", ResourceFields.image_url>>>>
    IN CASE m.op = "create" -> <<<<"action", "create">>>> \o fields
         [] m.op = "update" -> <<<<"action", "update">>, <<"id", String(m.id).s>>>> \o fields
         [] m.op = "delete" -> <<<<"action", "delete">>, <<"id", String(m.id).s>>>>

\* await fetch(API_URL, { method: 'POST', mode: 'no-cors', body: formData }):
\* in no-cors mode the response of a cross-origin request is opaque (type
\* 'opaque', ok false, status 0, no body) whatever the remote side answered
OpaqueResponse == [type |-> "opaque", ok |-> FALSE, status |-> 0]

\* the continuation of a mutation as it would be if it verified the response
mutationContinueVerifying(rc, response) ==
    IF ~response.ok
    THEN [rc EXCEPT !.phase = "done",
                    !.promise = [st |-> "rejected", value |-> <<"Request failed">>]]
    ELSE [rc EXCEPT !.phase = "done", !.promise = [st |-> "resolved", value |-> Undefined]]
\* the continuation of createResource / updateResource / deleteResource
\* after fetch has resolved: the response is not read, the function returns
mutationContinue(rc, response) ==
    [rc EXCEPT !.phase = "done", !.promise = [st |-> "resolved", value |-> Undefined]]

\* ---- the resource client's steps
GetResources ==
    /\ resource.phase = "idle"
    /\ resource' = [resource EXCEPT !.phase = "awaiting", !.op = "list",
                                    !.requests = <<[method |-> "GET", url |-> API_URL]>>]
    /\ UNCHANGED <<keys, upload>>
    /\ UNCHANGED sessionVars

ListResponds(response) ==
    /\ resource.phase = "awaiting" /\ resource.op = "list"
    /\ resource' = [getResourcesContinue(resource, response) EXCEPT !.remote = "answered",
                                                                   !.response = response]
    /\ UNCHANGED <<keys, upload>>
    /\ UNCHANGED sessionVars

\* createResource(resource), updateResource(resource), deleteResource(id)
Mutate(m) ==
    /\ resource.phase = "idle"
    /\ resource' = [resource EXCEPT
                      !.phase = "awaiting", !.op = m.op,
                      !.requests = <<[method |-> "POST", url |-> API_URL, mode |-> "no-cors",
                                      body |-> FormData(m)]>>]
    /\ UNCHANGED <<keys, upload>>
    /\ UNCHANGED sessionVars

\* the remote script received the request and persisted or rejected the
\* change; the browser hands fetch the opaque response
RemoteResponds(outcome) ==
    /\ resource.phase = "awaiting" /\ resource.op # "list"
    /\ resource' = [mutationContinue(resource, OpaqueResponse) EXCEPT !.remote = outcome]
    /\ UNCHANGED <<keys, upload>>
    /\ UNCHANGED sessionVars

\* the request could not be delivered: fetch rejects and so does the call
FetchFails ==
    /\ resource.phase = "awaiting"
    /\ resource' = [resource EXCEPT !.phase = "done", !.remote = "unreachable",
                                    !.promise = [st |-> "rejected", value |-> <<"Failed to fetch">>]]
    /\ UNCHANGED <<keys, upload>>
    /\ UNCHANGED sessionVars

InitResource ==
    /\ SessionIdle
    /\ ServicesIdle

NextResource ==
    \/ GetResources
    \/ \E response \in ListResponses : ListResponds(response)
    \/ \E m \in Mutations : Mutate(m)
    \/ \E outcome \in RemoteOutcomes : RemoteResponds(outcome)
    \/ FetchFails

SpecResource == InitResource /\ [][NextResource]_vars

\* ---- properties of the resource client
\* the textual form of a stored identifier, written out by hand
TextOf(id) ==
    CASE id = Num(1) -> "1"
      [] id = Num(20) -> "20"
      [] id.t = "string" -> id.s

\* C15: when the list request is answered with a successful status and a
\* list of records whose identifiers are numbers or strings, getResources
\* resolves with as many records in the same order, each with a textual
\* identifier equal to the textual form of the stored one and with its other
\* fields unchanged; when it is answered with a non-successful status it
\* rejects with the generic error and returns no records.
C15_ListNormalizesIdentifiers ==
    (resource.op = "list" /\ resource.remote = "answered")
    => LET response == resource.response
           returned == resource.promise.value
       IN /\ resource.phase = "done"
          /\ Len(resource.requests) = 1 /\ resource.requests[1].method = "GET"
          /\ ~response.ok
               => resource.promise = [st |-> "rejected", value |-> <<"Failed to fetch resources">>]
          /\ (response.ok /\ "data" \in DOMAIN response.json)
               => LET stored == response.json.data IN
                  /\ resource.promise.st = "resolved"
                  /\ Len(returned) = Len(stored)
                  /\ \A i \in DOMAIN stored :
                       /\ returned[i].id.t = "string"
                       /\ returned[i].id = Str(TextOf(stored[i].id))
                       /\ DOMAIN returned[i] = DOMAIN stored[i]
                       /\ \A k \in DOMAIN stored[i] \ {"id"} : returned[i][k] = stored[i][k]

\* the list held the identifiers 20 (a number) and '20' (a string): both
\* are returned as '20'
C15_Witness ==
    /\ resource.op = "list" /\ resource.phase = "done"
    /\ resource.remote = "answered" /\ resource.response.ok
    /\ "data" \in DOMAIN resource.response.json
    /\ resource.response.json.data = <<[id |-> Num(20), title |-> "t2"], [id |-> Str("20"), title |-> "t1"]>>
    /\ resource.promise.value[1].id = resource.promise.value[2].id
    /\ resource.promise.value[1].title = "t2"

IsMutation == resource.op \in {"create", "update", "delete"}

====
